---- MODULE Spec2Model ----
(***************************************************************************)
(* Model of src/app.py: the chart() function (technical indicators, panel  *)
(* layout, call of the renderer) and the Streamlit script that drives it   *)
(* through st.session_state and st.rerun().                                *)
(*                                                                         *)
(* Numbers: a Python float is modelled as a record, either a number held   *)
(* in units of 1/Scale, or NaN, or an infinity.  Each arithmetic step      *)
(* rounds to that unit, as each IEEE step rounds to 53 bits.  Inf stands   *)
(* for an infinity of either sign: the sign of a zero rolling mean depends *)
(* on the pandas build, so no step of the model relies on it.              *)
(*                                                                         *)
(* Python's None is the empty sequence <<>> and a present value v is       *)
(* <<v>>, so that both can be compared.                                    *)
(***************************************************************************)
EXTENDS Integers, Sequences, FiniteSets, TLC

VARIABLES
    session_state,   \* st.session_state: a function from the keys present to their values
    rerun_pending,   \* TRUE after st.rerun(): the script runs again with no widget event
    run,             \* what the last script run did (event, display step, messages)
    chart_call,      \* <<>> or <<c>>: the chart() call of the last script run
    chain,           \* script runs and chart() calls since the last user event
    req              \* <<>> or <<r>>: arguments of a direct chart() call (SpecChart)

vars == <<session_state, rerun_pending, run, chart_call, chain, req>>

(***************************************************************************)
(* Bounds of the model                                                     *)
(***************************************************************************)
MaxRows == 21        \* rows of a fetched price frame: 0..MaxRows
Scale == 100         \* a float is held in units of 1/Scale
BasePrice == 100     \* first close of a fetched frame
MaxChain == 5        \* script runs recorded after one user event

None == <<>>
Some(v) == <<v>>

Max(a, b) == IF a >= b THEN a ELSE b
Min(a, b) == IF a <= b THEN a ELSE b

(***************************************************************************)
(* Floats                                                                  *)
(***************************************************************************)
F(n) == [k |-> "num", v |-> n]
NaN == [k |-> "nan", v |-> 0]
Inf == [k |-> "inf", v |-> 0]
Num(n) == F(n * Scale)
IsNum(x) == x.k = "num"
IsNaN(x) == x.k = "nan"

FAdd(a, b) ==
    IF IsNaN(a) \/ IsNaN(b) THEN NaN
    ELSE IF a.k = "inf" /\ b.k = "inf" THEN NaN
    ELSE IF a.k = "inf" \/ b.k = "inf" THEN Inf
    ELSE F(a.v + b.v)

FNeg(a) == IF IsNum(a) THEN F(0 - a.v) ELSE a

FSub(a, b) == FAdd(a, FNeg(b))

FMul(a, b) ==
    IF IsNaN(a) \/ IsNaN(b) THEN NaN
    ELSE IF a.k = "inf" \/ b.k = "inf"
         THEN IF (IsNum(a) /\ a.v = 0) \/ (IsNum(b) /\ b.v = 0) THEN NaN ELSE Inf
    ELSE F((a.v * b.v) \div Scale)

\* IEEE division as numpy does it on float64: x/0 is an infinity, 0/0 is NaN,
\* and nothing is raised.
FDiv(a, b) ==
    IF IsNaN(a) \/ IsNaN(b) THEN NaN
    ELSE IF a.k = "inf" THEN (IF b.k = "inf" THEN NaN ELSE Inf)
    ELSE IF b.k = "inf" THEN F(0)
    ELSE IF b.v = 0 THEN (IF a.v = 0 THEN NaN ELSE Inf)
    ELSE F((a.v * Scale) \div b.v)

RECURSIVE ISqrtIn(_, _, _)
ISqrtIn(n, lo, hi) ==
    IF lo >= hi THEN lo
    ELSE LET mid == (lo + hi + 1) \div 2
         IN  IF mid * mid <= n THEN ISqrtIn(n, mid, hi) ELSE ISqrtIn(n, lo, mid - 1)

\* floor of the square root of n >= 0
ISqrt(n) == ISqrtIn(n, 0, Min(n, 46340))

(***************************************************************************)
(* Series (pandas Series as sequences of floats, 1-based)                  *)
(***************************************************************************)
\* a series given row by row, held as a sequence
Series(f) == SubSeq(f, 1, Len(f))

RECURSIVE AllNum(_, _, _)
AllNum(x, a, b) == IF a > b THEN TRUE ELSE IsNum(x[a]) /\ AllNum(x, a + 1, b)

RECURSIVE SumV(_, _, _)
SumV(x, a, b) == IF a > b THEN 0 ELSE x[a].v + SumV(x, a + 1, b)

RECURSIVE SumSqDev(_, _, _, _)
SumSqDev(x, m, a, b) ==
    IF a > b THEN 0 ELSE (x[a].v - m) * (x[a].v - m) + SumSqDev(x, m, a + 1, b)

\* Series.rolling(window=w).mean(): min_periods is the window, so the first w-1
\* rows, and any window holding a NaN, are NaN.
RollingMean(x, w) ==
    Series([i \in 1..Len(x) |->
        IF i < w \/ ~AllNum(x, i - w + 1, i) THEN NaN
        ELSE F(SumV(x, i - w + 1, i) \div w)])

\* Series.rolling(window=w).std(): the sample standard deviation (ddof=1).
RollingStd(x, w) ==
    Series([i \in 1..Len(x) |->
        IF i < w \/ ~AllNum(x, i - w + 1, i) THEN NaN
        ELSE LET m == SumV(x, i - w + 1, i) \div w
             IN  F(ISqrt(SumSqDev(x, m, i - w + 1, i) \div (w - 1)))])

\* Series.diff(): the first row has no predecessor and is NaN.
Diff(x) == Series([i \in 1..Len(x) |-> IF i = 1 THEN NaN ELSE FSub(x[i], x[i - 1])])

\* delta.where(delta > 0, 0): a row where the test is false, NaN included, becomes 0.
WherePositive(d) == Series([i \in 1..Len(d) |-> IF IsNum(d[i]) /\ d[i].v > 0 THEN d[i] ELSE F(0)])

\* delta.where(delta < 0, 0)
WhereNegative(d) == Series([i \in 1..Len(d) |-> IF IsNum(d[i]) /\ d[i].v < 0 THEN d[i] ELSE F(0)])

Neg(x) == Series([i \in 1..Len(x) |-> FNeg(x[i])])
Plus(x, y) == Series([i \in 1..Len(x) |-> FAdd(x[i], y[i])])
Minus(x, y) == Series([i \in 1..Len(x) |-> FSub(x[i], y[i])])
Times(x, c) == Series([i \in 1..Len(x) |-> FMul(x[i], c)])

RECURSIVE EwmUpTo(_, _, _)
EwmUpTo(x, span, n) ==
    IF n = 0 THEN <<>>
    ELSE IF n = 1 THEN <<x[1]>>
    ELSE LET prev == EwmUpTo(x, span, n - 1)
         IN  Append(prev, F((2 * x[n].v + (span - 1) * prev[n - 1].v) \div (span + 1)))

\* mutant: min_periods=span, the first span-1 rows are undefined
EwmMinPeriods(x, span) ==
    Series([i \in 1..Len(x) |-> IF i < span THEN NaN ELSE EwmUpTo(x, span, Len(x))[i]])

\* Series.ewm(span=span, adjust=False).mean() of a series without NaN:
\* y[0] = x[0], y[i] = a*x[i] + (1-a)*y[i-1] with a = 2/(span+1), which is
\* (2*x[i] + (span-1)*y[i-1]) / (span+1).  There is no min_periods: every row
\* is defined.
Ewm(x, span) == EwmUpTo(x, span, Len(x))

(***************************************************************************)
(* chart(): the indicators (lines 88-103)                                  *)
(***************************************************************************)
\* line 89 and line 90
MA20(close) == RollingMean(close, 20)
Std20(close) == RollingStd(close, 20)

\* line 91 and line 92
BBUpper(ma20, std) == Plus(ma20, Times(std, Num(2)))
BBLower(ma20, std) == Minus(ma20, Times(std, Num(2)))

\* lines 94-96
Delta(close) == Diff(close)
Gain(delta) == RollingMean(WherePositive(delta), 14)
Loss(delta) == RollingMean(Neg(WhereNegative(delta)), 14)

\* line 97: 100 - (100 / (1 + (gain / loss))), row by row
RSI(gain, loss) ==
    Series([i \in 1..Len(gain) |->
        FSub(Num(100), FDiv(Num(100), FAdd(Num(1), FDiv(gain[i], loss[i]))))])

\* lines 99-103
Exp1(close) == Ewm(close, 12)
Exp2(close) == Ewm(close, 26)
MACD(close) == Minus(Exp1(close), Exp2(close))
Signal(macd) == Ewm(macd, 9)
Hist(macd, signal) == Minus(macd, signal)

IndicatorColumns == {"MA20", "std", "BB_Upper", "BB_Lower", "RSI", "MACD", "Signal", "Hist"}

\* the frame after lines 89-103: the fetched Close column and the new columns
Indicators(close) ==
    LET ma20 == MA20(close)
        std == Std20(close)
        delta == Delta(close)
        gain == Gain(delta)
        loss == Loss(delta)
        macd == MACD(close)
        signal == Signal(macd)
    IN  [Close |-> close,
         MA20 |-> ma20,
         std |-> std,
         BB_Upper |-> BBUpper(ma20, std),
         BB_Lower |-> BBLower(ma20, std),
         RSI |-> RSI(gain, loss),
         MACD |-> macd,
         Signal |-> signal,
         Hist |-> Hist(macd, signal)]

\* s.iloc[-n:] for n >= 1: the last n rows, or all of them when there are fewer
TailRows(s, n) == SubSeq(s, Max(1, Len(s) - n + 1), Len(s))

\* df = df.iloc[-ndays:]
Truncate(df, ndays) == [c \in DOMAIN df |-> TailRows(df[c], ndays)]

\* mutant: the cut first, the indicators over the window only
WindowCutFirst(close, ndays) == Indicators(TailRows(close, ndays))

\* lines 89-105: the indicators over the whole fetched frame, then the cut
Window(close, ndays) == Truncate(Indicators(close), ndays)

(***************************************************************************)
(* chart(): the panel layout (lines 107-130)                               *)
(***************************************************************************)
\* mpf.make_addplot(df[col], panel=panel, type=type); panel defaults to 0
AddPlot(col, panel, type) == [data |-> col, panel |-> panel, type |-> type]

\* lines 108-112
LayoutStart(volume) ==
    [apds |-> <<>>,
     current_panel |-> IF volume THEN 2 ELSE 1,
     ratios |-> IF volume THEN <<6, 2>> ELSE <<6>>]

\* mutant: the Bollinger bands add a ratio of their own
LayoutBBOwnRatio(l, show_bb) ==
    IF show_bb
    THEN [apds |-> l.apds \o <<AddPlot("BB_Upper", 0, "line"),
                               AddPlot("BB_Lower", 0, "line")>>,
          current_panel |-> l.current_panel,
          ratios |-> Append(l.ratios, 2)]
    ELSE l

\* lines 115-117
LayoutBB(l, show_bb) ==
    IF show_bb
    THEN [l EXCEPT !.apds = l.apds \o <<AddPlot("BB_Upper", 0, "line"),
                                        AddPlot("BB_Lower", 0, "line")>>]
    ELSE l

\* mutant: the RSI takes a panel but the counter is not advanced
LayoutRSINoAdvance(l, show_rsi) ==
    IF show_rsi
    THEN [apds |-> Append(l.apds, AddPlot("RSI", l.current_panel, "line")),
          current_panel |-> l.current_panel,
          ratios |-> Append(l.ratios, 2)]
    ELSE l

\* lines 120-123
LayoutRSI(l, show_rsi) ==
    IF show_rsi
    THEN [apds |-> Append(l.apds, AddPlot("RSI", l.current_panel, "line")),
          current_panel |-> l.current_panel + 1,
          ratios |-> Append(l.ratios, 2)]
    ELSE l

\* lines 126-130
LayoutMACD(l, show_macd) ==
    IF show_macd
    THEN [apds |-> l.apds \o <<AddPlot("MACD", l.current_panel, "line"),
                               AddPlot("Signal", l.current_panel, "line"),
                               AddPlot("Hist", l.current_panel, "bar")>>,
          current_panel |-> l.current_panel,
          ratios |-> Append(l.ratios, 2)]
    ELSE l

PlanPanels(volume, show_bb, show_rsi, show_macd) ==
    LayoutMACD(LayoutRSI(LayoutBB(LayoutStart(volume), show_bb), show_rsi), show_macd)

\* mutant: one unit of height for each panel instead of two
FigSizeOnePerPanel(ratios) == <<14, 8 + Len(ratios)>>

\* figsize=(14, 8 + (len(ratios)*2))
FigSize(ratios) == <<14, 8 + (Len(ratios) * 2)>>

\* the panel mpf.plot draws the volume on (line 109: "1: 거래량(고정)")
VolumePanel == 1

\* the arguments of mpf.plot (lines 136-142)
PlotArgs(df, chart_style, volume, l) ==
    [df |-> df,
     type |-> "candle",
     volume |-> volume,
     addplot |-> l.apds,
     style |-> chart_style,
     figsize |-> FigSize(l.ratios),
     panel_ratios |-> l.ratios]

(***************************************************************************)
(* chart() as a whole (lines 78-144)                                       *)
(***************************************************************************)
\* chart_code.strip() and code_input.strip() on the codes of the model
Strip(s) ==
    CASE s = "  " -> ""
      [] s = " 005930 " -> "005930"
      [] OTHER -> s

\* str.upper() on the codes of the model
Upper(s) == IF s = "aapl" THEN "AAPL" ELSE s

\* mutant: a frame of one row counts as empty
IsEmptyBelowTwo(close) == Len(close) < 2

\* mutant: the test of df.empty is left out
IsEmptyNever(close) == FALSE

\* df.empty
IsEmpty(close) == Len(close) = 0

\* The arguments a call of chart() can take.  fetch is what FinanceDataReader
\* gives getData: <<>> when it raises (getData reports it and returns None),
\* <<close>> for a frame with that Close column.  renders tells whether
\* mpf.plot returns a figure or raises.
ChartArgs(code, ndays, style, volume, bb, rsi, macd, fetch, renders) ==
    [chart_code |-> code, ndays |-> ndays, chart_style |-> style, volume |-> volume,
     show_bb |-> bb, show_rsi |-> rsi, show_macd |-> macd, fetch |-> fetch,
     renders |-> renders]

\* One call of chart(): what it reported, computed, handed to the renderer and
\* whether it stored a figure.
Chart(a) ==
    LET code == Upper(Strip(a.chart_code))
        nodata == a.fetch = None \/ IsEmpty(a.fetch[1])
        fetchErr == IF a.fetch = None THEN {"getData: " \o code} ELSE {}
    IN  IF nodata
        THEN [args |-> a, code |-> code, errors |-> fetchErr \cup {"data error: " \o code},
              computed |-> FALSE, plot |-> None, raised |-> FALSE, fig |-> None]
        ELSE LET df == Window(a.fetch[1], a.ndays)
                 l == PlanPanels(a.volume, a.show_bb, a.show_rsi, a.show_macd)
                 p == PlotArgs(df, a.chart_style, a.volume, l)
             IN  [args |-> a, code |-> code, errors |-> {}, computed |-> TRUE,
                  plot |-> Some(p), raised |-> ~a.renders,
                  fig |-> IF a.renders THEN Some(p) ELSE None]

\* session_state after chart(): line 144 runs only when mpf.plot returned
StoreFig(ss, c) ==
    IF c.fig = None THEN ss
    ELSE [x \in DOMAIN ss \cup {"plt_fig"} |-> IF x = "plt_fig" THEN c.fig ELSE ss[x]]


(***************************************************************************)
(* The script (lines 188-294): one run from top to bottom                   *)
(***************************************************************************)
Put(ss, key, val) == [x \in DOMAIN ss \cup {key} |-> IF x = key THEN val ELSE ss[x]]

Has(ss, key) == key \in DOMAIN ss

\* lines 191-208: the value each key gets when it is absent
Defaults ==
    [show_list |-> TRUE, ascending |-> FALSE, df_result |-> None, ndays |-> 30,
     code_index |-> "", chart_style |-> "default", volume |-> TRUE, plt_fig |-> None,
     auto_chart_trigger |-> FALSE]

InitState(ss) ==
    [x \in DOMAIN ss \cup DOMAIN Defaults |-> IF x \in DOMAIN ss THEN ss[x] ELSE Defaults[x]]

\* lines 74-75: every key is deleted
ResetState(ss) == [x \in {} |-> TRUE]

\* the place of a string of the listings in the order of strings
Rank(v) ==
    CASE v = "005930" -> 1
      [] v = "AAPL" -> 2
      [] v = "Apple" -> 3
      [] v = "Samsung" -> 4
      [] OTHER -> 0

\* the value sort_values compares: a number, or a string by its place
SortKey(row, key) == IF key = "Marcap" THEN row.Marcap ELSE Rank(row[key])

Before(a, b, asc) == IF asc THEN a <= b ELSE a >= b

RECURSIVE Insert(_, _, _, _)
Insert(r, rows, key, asc) ==
    IF rows = <<>> THEN <<r>>
    ELSE IF Before(SortKey(r, key), SortKey(Head(rows), key), asc) THEN <<r>> \o rows
    ELSE <<Head(rows)>> \o Insert(r, Tail(rows), key, asc)

RECURSIVE SortRows(_, _, _)
\* DataFrame.sort_values(by=key, ascending=asc)
SortRows(rows, key, asc) ==
    IF rows = <<>> THEN <<>>
    ELSE Insert(Head(rows), SortRows(Tail(rows), key, asc), key, asc)

SortValues(df, key, asc) == [columns |-> df.columns, rows |-> SortRows(df.rows, key, asc)]

\* get_symbols (lines 25-50) on what fdr.StockListing gave: <<>> when it raised,
\* else <<df>> with the columns already renamed
GetSymbols(listing, sort) ==
    IF listing = None THEN None
    ELSE LET df == listing[1]
             actual_sort == IF sort \in df.columns THEN sort ELSE "Code"
             ascending == IF actual_sort = "Marcap" THEN FALSE ELSE TRUE
         IN  Some(SortValues(df, actual_sort, ascending))

\* lines 231-238
SubmitList(ss, listing, sort) ==
    LET got == GetSymbols(listing, sort)
    IN  IF got = None THEN ss
        ELSE LET df == got[1]
                 sorted == IF sort \in df.columns
                           THEN SortValues(df, sort, ss.ascending) ELSE df
             IN  Put(Put(ss, "show_list", TRUE), "df_result", Some(sorted))

\* the rows create_clickable_dataframe draws a button for (line 154)
ShownRows(ss) ==
    IF Has(ss, "show_list") /\ Has(ss, "df_result") /\ ss.show_list /\ ss.df_result # None
    THEN SubSeq(ss.df_result[1].rows, 1, Min(100, Len(ss.df_result[1].rows)))
    ELSE <<>>

\* lines 163-167
ClickRow(ss, row) ==
    Put(Put(Put(Put(Put(ss, "code_index", row.Code), "auto_chart_trigger", TRUE),
        "plt_fig", None), "df_title", ""), "df_date", "")

\* mutant: the trigger is not reset
BeforeChartKeepTrigger(ss) == Put(ss, "plt_fig", None)

\* lines 279 and 282
BeforeChart(ss) == Put(Put(ss, "auto_chart_trigger", FALSE), "plt_fig", None)

\* lines 291-294: what the display step does
Display(ss) ==
    IF ss.plt_fig = None THEN "none"
    ELSE IF Has(ss, "df_title") /\ Has(ss, "df_date") THEN "shown"
    ELSE "missing_key"

Result(ss, ended, display, call) ==
    [ss |-> ss, ended |-> ended, display |-> display, call |-> call]

\* lines 274-287, reached with the session state s and the widget values of ev
ChartStep(s, ev) ==
    LET chart_submit == ev.kind = "chart"
    IN  IF (chart_submit /\ Strip(ev.code_input) # "") \/ s.auto_chart_trigger
        THEN LET current_code == IF s.auto_chart_trigger THEN s.code_index
                                 ELSE ev.code_input
                 s1 == BeforeChart(s)
                 c == Chart(ChartArgs(current_code, ev.ndays, ev.chart_style, ev.volume,
                                      ev.show_bb, ev.show_rsi, ev.show_macd, ev.fetch,
                                      ev.renders))
                 call == Some([before |-> s1, c |-> c])
             IN  IF c.raised
                 THEN Result(s1, "exception", "skipped", call)
                 ELSE Result(StoreFig(s1, c), "rerun", "skipped", call)
        ELSE Result(s, "end", Display(s), None)

\* One run of the script on the event ev: the widget that fired, and the values
\* the widgets hold.
ScriptRun(ss, ev) ==
    IF ev.kind = "reset"
    THEN Result(ResetState(ss), "rerun", "skipped", None)
    ELSE LET s0 == InitState(ss)
             s1 == Put(s0, "ascending", ev.order = "asc")
             s2 == IF ev.kind = "list" THEN SubmitList(s1, ev.listing, ev.sort) ELSE s1
         IN  IF ev.kind = "click" /\ ev.idx \in 1..Len(ShownRows(s2))
             THEN Result(ClickRow(s2, ShownRows(s2)[ev.idx]), "rerun", "skipped", None)
             ELSE ChartStep(s2, ev)


(***************************************************************************)
(* Inputs                                                                  *)
(***************************************************************************)
\* the radio '정렬 순서' and the selectbox '정렬 기준'
Orders == {"desc", "asc"}
Sorts == {"Marcap", "Name", "Code"}

Samsung == [Code |-> "005930", Name |-> "Samsung", Marcap |-> 5]
Apple == [Code |-> "AAPL", Name |-> "Apple", Marcap |-> 9]

\* what fdr.StockListing can give: an exception, an empty listing, a listing
\* with a market capitalisation, a listing without that column
Listings ==
    {None,
     Some([columns |-> {"Code", "Name", "Marcap"}, rows |-> <<>>]),
     Some([columns |-> {"Code", "Name", "Marcap"}, rows |-> <<Samsung, Apple>>]),
     Some([columns |-> {"Code", "Name"}, rows |-> <<[Code |-> "AAPL", Name |-> "Apple"]>>])}

\* texts of the input '직접 입력'
CodeInputs == {"", "  ", "aapl", " 005930 "}

\* values of the number input '과거 N일' (10..365)
NDaysChoices == {10, 30}

Flags == [volume : BOOLEAN, show_bb : BOOLEAN, show_rsi : BOOLEAN, show_macd : BOOLEAN]

\* the check boxes of the chart form in the model of the script
SessionFlags ==
    {f \in Flags : \/ f.volume /\ f.show_bb /\ f.show_rsi /\ f.show_macd
                   \/ ~f.volume /\ ~f.show_bb /\ ~f.show_rsi /\ ~f.show_macd
                   \/ ~f.volume /\ f.show_bb /\ f.show_rsi /\ ~f.show_macd}

\* a Close column of n rows: BasePrice, then k steps of d1, then steps of d2
Frame(n, k, d1, d2) ==
    Series([i \in 1..n |->
        Num(BasePrice + (IF i - 1 <= k THEN (i - 1) * d1 ELSE k * d1 + (i - 1 - k) * d2))])

Deltas == {-1, 0, 1}

\* rows after which the step of a frame changes
Turns == {0, 5, 12}

\* what the data reader gives in the model of the script
SessionFetches == {None, Some(<<>>), Some(Frame(1, 0, 0, 0)), Some(Frame(3, 1, 1, -1))}

\* values of the number input in the model of the script
SessionNDays == {30}

Event(kind, order, sort, listing, idx, code_input, ndays, f, fetch, renders) ==
    [kind |-> kind, order |-> order, sort |-> sort, listing |-> listing, idx |-> idx,
     code_input |-> code_input, ndays |-> ndays, chart_style |-> "default",
     volume |-> f.volume, show_bb |-> f.show_bb, show_rsi |-> f.show_rsi,
     show_macd |-> f.show_macd, fetch |-> fetch, renders |-> renders]

(***************************************************************************)
(* The script as a state machine                                           *)
(***************************************************************************)
NoEvent == [event |-> "none", ended |-> "end", display |-> "skipped"]

NoChain == [origin |-> "none", runs |-> 0, charts |-> 0, code |-> ""]

Calls(r) == IF r.call = None THEN 0 ELSE 1

\* the script runs on ev; clicked is the code of the row clicked, if any
Step(ev, clicked) ==
    \E r \in {ScriptRun(session_state, ev)} :
        /\ session_state' = r.ss
        /\ rerun_pending' = (r.ended = "rerun")
        /\ run' = [event |-> ev.kind, ended |-> r.ended, display |-> r.display]
        /\ chart_call' = r.call
        /\ chain' = IF ev.kind = "rerun"
                    THEN [chain EXCEPT !.runs = Min(MaxChain, @ + 1),
                                       !.charts = Min(MaxChain, @ + Calls(r))]
                    ELSE [origin |-> ev.kind, runs |-> 1, charts |-> Calls(r),
                          code |-> clicked]
        /\ UNCHANGED req

\* The values of the chart form, the answer of the data reader and that of the
\* renderer are read only by a run that reaches line 274 with the form submitted
\* or the trigger set; any other run is given one value for them.
ReadsChartForm(ss, kind) ==
    kind = "chart" \/ (Has(ss, "auto_chart_trigger") /\ ss.auto_chart_trigger)

ChartInputs(ss, kind) ==
    IF ReadsChartForm(ss, kind)
    THEN [ndays : SessionNDays, f : SessionFlags, fetch : SessionFetches, renders : BOOLEAN]
    ELSE {[ndays |-> 30, f |-> [volume |-> TRUE, show_bb |-> TRUE, show_rsi |-> TRUE,
                                show_macd |-> TRUE], fetch |-> None, renders |-> TRUE]}

\* the page load, and the run st.rerun() asks for: no widget fired
Rerun ==
    /\ rerun_pending
    /\ \E order \in Orders, w \in ChartInputs(session_state, "rerun") :
          Step(Event("rerun", order, "Marcap", None, 0, "", w.ndays, w.f, w.fetch,
                     w.renders), "")

\* the header button (line 72)
ResetButton ==
    /\ ~rerun_pending
    /\ \E order \in Orders, w \in ChartInputs(session_state, "reset") :
          Step(Event("reset", order, "Marcap", None, 0, "", w.ndays, w.f, w.fetch,
                     w.renders), "")

\* the submit button of the form get_list (line 229)
SubmitListForm ==
    /\ ~rerun_pending
    /\ \E order \in Orders, sort \in Sorts, listing \in Listings,
          w \in ChartInputs(session_state, "list") :
          Step(Event("list", order, sort, listing, 0, "", w.ndays, w.f, w.fetch,
                     w.renders), "")

\* a button of the stock list (line 162)
ClickStock ==
    /\ ~rerun_pending
    /\ \E idx \in 1..Len(ShownRows(session_state)), order \in Orders,
          w \in ChartInputs(session_state, "click") :
          Step(Event("click", order, "Marcap", None, idx, "", w.ndays, w.f, w.fetch,
                     w.renders), ShownRows(session_state)[idx].Code)

\* the submit button of the form get_chart (line 272)
SubmitChartForm ==
    /\ ~rerun_pending
    /\ \E order \in Orders, code_input \in CodeInputs,
          w \in ChartInputs(session_state, "chart") :
          Step(Event("chart", order, "Marcap", None, 0, code_input, w.ndays, w.f,
                     w.fetch, w.renders), "")

Init ==
    /\ session_state = ResetState(<<>>)
    /\ rerun_pending = TRUE
    /\ run = NoEvent
    /\ chart_call = None
    /\ chain = NoChain
    /\ req = None

Next == Rerun \/ ResetButton \/ SubmitListForm \/ ClickStock \/ SubmitChartForm

Spec == Init /\ [][Next]_vars

(***************************************************************************)
(* chart() alone, on every frame and every combination of the flags        *)
(***************************************************************************)
InitChart ==
    /\ session_state = InitState(ResetState(<<>>))
    /\ rerun_pending = FALSE
    /\ run = NoEvent
    /\ chart_call = None
    /\ chain = NoChain
    /\ \E ndays \in NDaysChoices, f \in Flags, renders \in BOOLEAN, fails \in BOOLEAN,
          n \in 0..MaxRows, k \in Turns, d1 \in Deltas, d2 \in Deltas :
          req = Some(ChartArgs("aapl", ndays, "default", f.volume, f.show_bb, f.show_rsi,
                               f.show_macd,
                               IF fails THEN None ELSE Some(Frame(n, k, d1, d2)),
                               renders))

CallChart ==
    /\ req # None
    /\ \E c \in {Chart(req[1])} :
           /\ chart_call' = Some([before |-> session_state, c |-> c])
           /\ session_state' = StoreFig(session_state, c)
    /\ req' = None
    /\ UNCHANGED <<rerun_pending, run, chain>>

NextChart == CallChart

SpecChart == InitChart /\ [][NextChart]_vars


(***************************************************************************)
(* Properties                                                              *)
(***************************************************************************)
Called == chart_call # None
TheCall == chart_call[1].c
Args == TheCall.args
Plotted == Called /\ TheCall.plot # None
ThePlot == TheCall.plot[1]
NoData == Called /\ (Args.fetch = None \/ Len(Args.fetch[1]) = 0)
Fetched == Args.fetch[1]

\* the panels the renderer is asked to draw the column col on
PanelsOf(col) ==
    {ThePlot.addplot[i].panel : i \in {j \in 1..Len(ThePlot.addplot) : ThePlot.addplot[j].data = col}}

VolumePanels == IF ThePlot.volume THEN {VolumePanel} ELSE {}
RSIPanels == PanelsOf("RSI")
MACDPanels == PanelsOf("MACD") \cup PanelsOf("Signal") \cup PanelsOf("Hist")
UsedPanels == {0} \cup VolumePanels \cup {ThePlot.addplot[i].panel : i \in 1..Len(ThePlot.addplot)}
MaxOf(S) == CHOOSE m \in S : \A x \in S : x <= m
Count(b) == IF b THEN 1 ELSE 0

\* C1: for each of the 16 flag combinations the panels follow the priority
\* volume, RSI, MACD: volume on panel 1, RSI on panel 2 with volume and on
\* panel 1 without, MACD, Signal and Hist together on the next panel, the
\* Bollinger bands on panel 0; the panels used are 0..k without a gap and the
\* groups volume, RSI, MACD never share a panel.
C1_PanelPriority ==
    Plotted =>
        /\ ThePlot.volume = Args.volume
        /\ VolumePanels = (IF Args.volume THEN {1} ELSE {})
        /\ RSIPanels = (IF Args.show_rsi THEN {IF Args.volume THEN 2 ELSE 1} ELSE {})
        /\ \A col \in {"MACD", "Signal", "Hist"} :
              PanelsOf(col) = (IF Args.show_macd
                               THEN {1 + Count(Args.volume) + Count(Args.show_rsi)}
                               ELSE {})
        /\ \A col \in {"BB_Upper", "BB_Lower"} :
              PanelsOf(col) = (IF Args.show_bb THEN {0} ELSE {})
        /\ UsedPanels = 0..MaxOf(UsedPanels)
        /\ VolumePanels \cap RSIPanels = {}
        /\ VolumePanels \cap MACDPanels = {}
        /\ RSIPanels \cap MACDPanels = {}

C1_Witness ==
    /\ Plotted
    /\ ~Args.volume /\ Args.show_rsi /\ Args.show_macd
    /\ RSIPanels = {1}
    /\ MACDPanels = {2}

\* C2: the ratios are [6] followed by one 2 for each enabled flag among volume,
\* RSI, MACD; their number is 1 + the number of those flags, whatever show_bb
\* is, and is the highest panel index plus one.
C2_Ratios ==
    Plotted =>
        /\ ThePlot.panel_ratios =
              <<6>> \o (IF Args.volume THEN <<2>> ELSE <<>>)
                    \o (IF Args.show_rsi THEN <<2>> ELSE <<>>)
                    \o (IF Args.show_macd THEN <<2>> ELSE <<>>)
        /\ Len(ThePlot.panel_ratios) =
              1 + Count(Args.volume) + Count(Args.show_rsi) + Count(Args.show_macd)
        /\ Len(ThePlot.panel_ratios) = MaxOf(UsedPanels) + 1

C2_Witness ==
    /\ Plotted
    /\ Args.show_bb /\ ~Args.volume /\ Args.show_rsi /\ ~Args.show_macd
    /\ ThePlot.panel_ratios = <<6, 2>>

\* C3: the height of the figure is 8 + 2 * len(ratios); with the four flags
\* false the ratios are [6], the height is 10, panel 0 is the only panel and
\* chart() reports no error on its way to the renderer.
C3_Height ==
    Plotted =>
        /\ ThePlot.figsize = <<14, 8 + 2 * Len(ThePlot.panel_ratios)>>
        /\ (~Args.volume /\ ~Args.show_bb /\ ~Args.show_rsi /\ ~Args.show_macd) =>
              /\ ThePlot.panel_ratios = <<6>>
              /\ ThePlot.figsize[2] = 10
              /\ UsedPanels = {0}
              /\ TheCall.errors = {}

C3_Witness ==
    /\ Plotted
    /\ ~Args.volume /\ ~Args.show_bb /\ ~Args.show_rsi /\ ~Args.show_macd
    /\ ThePlot.figsize = <<14, 10>>


Computed == Called /\ TheCall.computed
Rows == Len(Fetched)

\* the rows of the fetched frame the renderer is given: Offset+1..Rows
Shown == Len(ThePlot.df.Close)
Offset == Rows - Shown

\* the 14-period mean loss of line 96 over the fetched frame
MeanLoss == Loss(Delta(Fetched))

\* C5: at every row where the 14-period mean loss is defined and 0, the RSI is
\* computed without an error and is the saturation value 100, not an undefined
\* value.
C5_ZeroLossSaturates ==
    Computed =>
        LET loss == MeanLoss
            rsi == Indicators(Fetched).RSI
        IN  \A i \in 1..Rows : loss[i] = F(0) => rsi[i] = Num(100)

\* C6 as stated: with fewer than 2 rows every indicator is undefined or empty
\* and the caller is told there is no data instead of a chart being built.
C6_ShortFrameIsNoData ==
    (Called /\ Args.fetch # None /\ Rows < 2) =>
        /\ TheCall.errors # {}
        /\ TheCall.plot = None
        /\ TheCall.fig = None
        /\ LET full == Indicators(Fetched)
           IN  \A col \in IndicatorColumns : \A i \in 1..Rows : IsNaN(full[col][i])

\* C6 as amended: with 0 rows chart() computes nothing and reports a data
\* error instead of building a chart; with exactly 1 row nothing is reported,
\* MA20, std, BB_Upper, BB_Lower and RSI are undefined at that row, MACD, Signal
\* and Hist are defined and 0, and chart() goes on to the renderer.
C6_EmptyOrOneRow ==
    (Called /\ Args.fetch # None) =>
        /\ Rows = 0 =>
              /\ TheCall.errors = {"data error: AAPL"}
              /\ ~TheCall.computed
              /\ TheCall.plot = None
              /\ TheCall.fig = None
        /\ Rows = 1 =>
              /\ TheCall.errors = {}
              /\ TheCall.computed
              /\ TheCall.plot # None
              /\ \A col \in {"MA20", "std", "BB_Upper", "BB_Lower", "RSI"} :
                    ThePlot.df[col] = <<NaN>>
              /\ \A col \in {"MACD", "Signal", "Hist"} : ThePlot.df[col] = <<F(0)>>

C6_Witness ==
    /\ Plotted
    /\ Rows = 1
    /\ ThePlot.df.MACD = <<F(0)>>
    /\ ThePlot.df.RSI = <<NaN>>

\* C7: for a non-empty close series MACD, Signal and Hist are defined at every
\* row, with no warm-up gap: the first row of the series has MACD = Signal =
\* Hist = 0, Signal follows the recurrence of span 9 on MACD (S[i] =
\* (2*M[i] + 8*S[i-1]) / 10) and Hist is MACD - Signal.
C7_MACDDefined ==
    Plotted =>
        /\ \A col \in {"MACD", "Signal", "Hist"} :
              /\ Len(ThePlot.df[col]) = Shown
              /\ \A j \in 1..Shown : IsNum(ThePlot.df[col][j])
        /\ Offset = 0 =>
              \A col \in {"MACD", "Signal", "Hist"} : ThePlot.df[col][1] = F(0)
        /\ LET full == Indicators(Fetched)
           IN  \A col \in {"MACD", "Signal", "Hist"} : full[col][1] = F(0)
        /\ \A j \in 2..Shown :
              ThePlot.df.Signal[j].v =
                 (2 * ThePlot.df.MACD[j].v + 8 * ThePlot.df.Signal[j - 1].v) \div 10
        /\ \A j \in 1..Shown :
              ThePlot.df.Hist[j].v = ThePlot.df.MACD[j].v - ThePlot.df.Signal[j].v

C7_Witness ==
    /\ Plotted
    /\ Offset = 0
    /\ Shown >= 12
    /\ ThePlot.df.MACD[1] = F(0)
    /\ ThePlot.df.MACD[Shown].v > 0
    /\ ThePlot.df.Hist[Shown].v # 0

\* C8: the indicators are computed over the whole fetched series and the frame
\* is cut afterwards: the renderer gets the last ndays rows (all rows when
\* there are fewer), each indicator value in the window is the value computed
\* at that row over the whole series, and with the four flags set the panels
\* are 0, 1, 2, 3 with ratios [6, 2, 2, 2].
C8_ComputeThenCut ==
    Plotted =>
        /\ Shown = Min(Args.ndays, Rows)
        /\ \A j \in 1..Shown : ThePlot.df.Close[j] = Fetched[Offset + j]
        /\ LET full == Indicators(Fetched)
           IN  \A col \in IndicatorColumns :
                  /\ Len(ThePlot.df[col]) = Shown
                  /\ \A j \in 1..Shown : ThePlot.df[col][j] = full[col][Offset + j]
        /\ (Args.volume /\ Args.show_bb /\ Args.show_rsi /\ Args.show_macd) =>
              /\ UsedPanels = {0, 1, 2, 3}
              /\ ThePlot.panel_ratios = <<6, 2, 2, 2>>

C8_Witness ==
    /\ Plotted
    /\ Rows = 21 /\ Args.ndays = 10 /\ Shown = 10
    /\ Args.volume /\ Args.show_bb /\ Args.show_rsi /\ Args.show_macd
    /\ IsNum(ThePlot.df.MA20[Shown])
    /\ IsNum(ThePlot.df.RSI[Shown])
    /\ IsNaN(ThePlot.df.MA20[1])
    /\ ThePlot.panel_ratios = <<6, 2, 2, 2>>


Trigger == session_state.auto_chart_trigger

\* C4: when the price fetch fails or gives an empty frame, chart() reports an
\* error and returns: no indicator is computed, no panel planned, nothing is
\* handed to the renderer and session_state is as the caller left it, with
\* plt_fig cleared; the run that follows displays no chart.
C4_NoDataNoChart ==
    /\ [](NoData =>
            /\ ("data error: " \o TheCall.code) \in TheCall.errors
            /\ (Args.fetch = None) = (("getData: " \o TheCall.code) \in TheCall.errors)
            /\ ~TheCall.computed
            /\ TheCall.plot = None
            /\ TheCall.fig = None
            /\ session_state = chart_call[1].before
            /\ session_state.plt_fig = None
            /\ rerun_pending)
    /\ [][NoData => run'.display = "none"]_vars

C4_Witness ==
    /\ NoData
    /\ Args.fetch = Some(<<>>)
    /\ run.event = "chart"
    /\ session_state.plt_fig = None

\* C9: whenever the display step runs with plt_fig not None, the keys
\* df_title and df_date it reads are present in session_state.
C9_DisplayKeysPresent ==
    (run.display # "skipped" /\ session_state.plt_fig # None) =>
        (Has(session_state, "df_title") /\ Has(session_state, "df_date"))

\* C10: a click on a stock row sets auto_chart_trigger and code_index and asks
\* for a rerun; the following run resets the trigger before it calls chart(),
\* calls chart() once, with the clicked code, and the run after that draws no
\* further chart: the chain of reruns ends with auto_chart_trigger = False.
C10_ClickChain ==
    /\ (~rerun_pending /\ Has(session_state, "auto_chart_trigger")) => ~Trigger
    /\ chain.origin = "click" =>
          /\ chain.runs <= 3
          /\ chain.runs = 1 =>
                /\ rerun_pending
                /\ Trigger
                /\ session_state.code_index = chain.code
                /\ chain.charts = 0
          /\ chain.runs >= 2 =>
                /\ chain.charts = 1
                /\ ~Trigger
          /\ chain.runs = 2 =>
                /\ Called
                /\ Args.chart_code = chain.code
                /\ ~chart_call[1].before.auto_chart_trigger
                /\ rerun_pending = ~TheCall.raised
          /\ chain.runs = 3 =>
                /\ ~Called
                /\ ~rerun_pending

C10_Witness ==
    /\ chain.origin = "click"
    /\ chain.code = "AAPL"
    /\ chain.runs = 3
    /\ chain.charts = 1
    /\ ~rerun_pending
    /\ ~Trigger
    /\ session_state.plt_fig # None


====
